---- MODULE Spec2Model ----
(***************************************************************************)
(* A model of the rpc api handler: ServeHTTP (rpc.go), requestPayload      *)
(* (rpc.go), and the websocket bridge serveWebsocket / writeLoop           *)
(* (stream.go).                                                            *)
(*                                                                         *)
(* Header values that the code inspects character by character             *)
(* (Content-Type, Connection, Upgrade) are sequences of one-character      *)
(* strings, so that IndexRune, Contains, Split, TrimSpace and ToLower are  *)
(* computed as the code computes them.  Values the code only compares for  *)
(* equality (method, endpoint names, protocol hints) are plain strings.    *)
(***************************************************************************)
EXTENDS Integers, Sequences, FiniteSets, TLC

(***************************************************************************)
(* Bounds of the model.                                                    *)
(***************************************************************************)
\* frames a client sends on the upgraded connection in one session
MaxFrames == 2
\* chunks the backend puts on the response channel in one session
MaxChunks == 2

(***************************************************************************)
(* Program constants.                                                      *)
(***************************************************************************)
\* frame opcodes of gobwas/ws: the two data opcodes stream.go names, a control
\* opcode, and the close frame that ReadClientData reports as a ClosedError
OpText == "OpText"
OpBinary == "OpBinary"
OpPing == "OpPing"
OpClose == "OpClose"
OpPong == "OpPong"
\* close status codes named in writeLoop
StatusNormalClosure == 1000
StatusGoingAway == 1001
StatusNoStatusRcvd == 1005
\* handler.DefaultMaxRecvSize (100 MiB), used when opts.MaxRecvSize is 0
DefaultMaxRecvSize == 104857600

(***************************************************************************)
(* String literals.                                                        *)
(***************************************************************************)
CT_empty == <<>>
CT_json == <<"a", "p", "p", "l", "i", "c", "a", "t", "i", "o", "n", "/", "j", "s", "o", "n">>
CT_json_charset == <<"a", "p", "p", "l", "i", "c", "a", "t", "i", "o", "n", "/", "j", "s", "o", "n", ";", " ", "c", "h", "a", "r", "s", "e", "t", "=", "U", "T", "F", "-", "8">>
CT_json_rpc == <<"a", "p", "p", "l", "i", "c", "a", "t", "i", "o", "n", "/", "j", "s", "o", "n", "-", "r", "p", "c">>
CT_proto_rpc == <<"a", "p", "p", "l", "i", "c", "a", "t", "i", "o", "n", "/", "p", "r", "o", "t", "o", "-", "r", "p", "c">>
CT_octet_stream == <<"a", "p", "p", "l", "i", "c", "a", "t", "i", "o", "n", "/", "o", "c", "t", "e", "t", "-", "s", "t", "r", "e", "a", "m">>
CT_form == <<"a", "p", "p", "l", "i", "c", "a", "t", "i", "o", "n", "/", "w", "w", "w", "-", "x", "-", "f", "o", "r", "m", "-", "u", "r", "l", "e", "n", "c", "o", "d", "e", "d">>
CT_x_www_form == <<"a", "p", "p", "l", "i", "c", "a", "t", "i", "o", "n", "/", "x", "-", "w", "w", "w", "-", "f", "o", "r", "m", "-", "u", "r", "l", "e", "n", "c", "o", "d", "e", "d">>
CT_grpc == <<"a", "p", "p", "l", "i", "c", "a", "t", "i", "o", "n", "/", "g", "r", "p", "c">>
CT_grpc_json == <<"a", "p", "p", "l", "i", "c", "a", "t", "i", "o", "n", "/", "g", "r", "p", "c", "+", "j", "s", "o", "n">>
CT_grpc_proto == <<"a", "p", "p", "l", "i", "c", "a", "t", "i", "o", "n", "/", "g", "r", "p", "c", "+", "p", "r", "o", "t", "o">>
CT_proto == <<"a", "p", "p", "l", "i", "c", "a", "t", "i", "o", "n", "/", "p", "r", "o", "t", "o">>
CT_protobuf == <<"a", "p", "p", "l", "i", "c", "a", "t", "i", "o", "n", "/", "p", "r", "o", "t", "o", "b", "u", "f">>
CT_text_plain == <<"t", "e", "x", "t", "/", "p", "l", "a", "i", "n">>
CT_protobuf_charset == <<"a", "p", "p", "l", "i", "c", "a", "t", "i", "o", "n", "/", "p", "r", "o", "t", "o", "b", "u", "f", ";", " ", "c", "h", "a", "r", "s", "e", "t", "=", "U", "T", "F", "-", "8">>
H_upgrade == <<"u", "p", "g", "r", "a", "d", "e">>
H_Upgrade == <<"U", "p", "g", "r", "a", "d", "e">>
H_keepalive_Upgrade == <<"k", "e", "e", "p", "-", "a", "l", "i", "v", "e", ",", " ", "U", "p", "g", "r", "a", "d", "e">>
H_keepalive == <<"k", "e", "e", "p", "-", "a", "l", "i", "v", "e">>
H_upgrades == <<"u", "p", "g", "r", "a", "d", "e", "s">>
H_websocket == <<"w", "e", "b", "s", "o", "c", "k", "e", "t">>
H_WebSocket == <<"W", "e", "b", "S", "o", "c", "k", "e", "t">>
H_h2c_websocket == <<"h", "2", "c", ",", "w", "e", "b", "s", "o", "c", "k", "e", "t", " ">>
H_h2c == <<"h", "2", "c">>

(***************************************************************************)
(* String functions of package strings, on character sequences.            *)
(***************************************************************************)
\* strings.IndexRune(s, c): 0-based index of the first c in s, or -1
RECURSIVE IndexFrom(_, _, _)
IndexFrom(s, c, i) ==
    IF i > Len(s) THEN -1
    ELSE IF s[i] = c THEN i - 1
    ELSE IndexFrom(s, c, i + 1)

IndexRune(s, c) == IndexFrom(s, c, 1)

\* s[:idx] of Go, idx 0-based and exclusive
SliceTo(s, idx) == SubSeq(s, 1, idx)

\* strings.Contains(s, sub)
Contains(s, sub) ==
    \E i \in 0..(Len(s) - Len(sub)) : SubSeq(s, i + 1, i + Len(sub)) = sub

\* strings.Split(s, ","): the fields between the commas, at least one field
RECURSIVE Split(_, _)
Split(s, sep) ==
    LET idx == IndexRune(s, sep)
    IN  IF idx < 0 THEN <<s>>
        ELSE <<SliceTo(s, idx)>> \o Split(SubSeq(s, idx + 2, Len(s)), sep)

\* strings.TrimSpace(s)
RECURSIVE TrimLeft(_)
TrimLeft(s) ==
    IF s # <<>> /\ Head(s) = " " THEN TrimLeft(Tail(s)) ELSE s

RECURSIVE TrimRight(_)
TrimRight(s) ==
    IF s # <<>> /\ s[Len(s)] = " " THEN TrimRight(SubSeq(s, 1, Len(s) - 1)) ELSE s

TrimSpace(s) == TrimRight(TrimLeft(s))

\* strings.ToLower(s), on the letters that occur in the header values
LowerOf(c) ==
    CASE c = "U" -> "u"
      [] c = "W" -> "w"
      [] c = "S" -> "s"
      [] c = "T" -> "t"
      [] c = "F" -> "f"
      [] OTHER -> c

ToLower(s) == [i \in 1..Len(s) |-> LowerOf(s[i])]

(***************************************************************************)
(* Requests, services and payloads.                                        *)
(*                                                                         *)
(* A request r is a record                                                 *)
(*   method      : "GET", "POST", "PATCH", "PUT"                           *)
(*   contentType : the raw Content-Type header                             *)
(*   connection, upgrade : the raw Connection and Upgrade headers          *)
(*   hasProto, proto : whether Sec-WebSocket-Protocol is present, and its  *)
(*                 values                                                  *)
(*   query       : URL.RawQuery as a sequence of <<key, value>> pairs      *)
(*   body        : the body bytes                                          *)
(* A service is [name of the requested endpoint, services with endpoints]. *)
(***************************************************************************)
Min(a, b) == IF a < b THEN a ELSE b

\* rpc.go:33-37
jsonCodecs == <<CT_grpc_json, CT_json, CT_json_rpc>>

\* rpc.go:40-47
protoCodecs ==
    <<CT_grpc, CT_grpc_proto, CT_proto, CT_protobuf, CT_proto_rpc, CT_octet_stream>>

\* rpc.go:208-215
hasCodec(c, codecs) == \E i \in 1..Len(codecs) : c = codecs[i]

\* rpc.go:110-112 and stream.go:27-29: cut the header at its first ';'
StripParams(header) ==
    LET idx == IndexRune(header, ";")
    IN  IF idx >= 0 THEN SliceTo(header, idx) ELSE header

\* rpc.go:74-77
bsizeOf(maxRecvSize) ==
    IF maxRecvSize > 0 THEN maxRecvSize ELSE DefaultMaxRecvSize

PayloadOK(kind, data) == [err |-> "", kind |-> kind, data |-> data]
PayloadErr(e) == [err |-> e, kind |-> "nil", data |-> <<>>]

\* http.MaxBytesReader(w, r.Body, bsize) read to its end: the bytes a reader
\* gets before the limit, and whether the limit was hit
BodyAvail(body, bsize) == SubSeq(body, 1, Min(Len(body), bsize))
BodyTooLarge(body, bsize) == Len(body) > bsize

\* The envelope codecs (jsonrpc, protorpc) read a header and then the body
\* the header declares.  The envelope is abstracted as <<n, b1, ..., bn>>:
\* the first byte declares the length of the body that follows.
DecodeEnvelope(body, bsize) ==
    LET avail == BodyAvail(body, bsize)
    IN  IF avail = <<>> THEN PayloadErr("ReadHeader")
        ELSE IF Len(avail) < 1 + avail[1] THEN PayloadErr("ReadBody")
        ELSE PayloadOK("bytes", SubSeq(avail, 2, 1 + avail[1]))

QueryKeys(query) == {query[i][1] : i \in 1..Len(query)}

RECURSIVE ValuesOf(_, _)
ValuesOf(query, k) ==
    IF query = <<>> THEN <<>>
    ELSE (IF Head(query)[1] = k THEN <<Head(query)[2]>> ELSE <<>>)
            \o ValuesOf(Tail(query), k)

\* strings.Join(v, ","), as the sequence of the parts and separators
RECURSIVE Join(_, _)
Join(v, sep) ==
    IF Len(v) <= 1 THEN v ELSE <<Head(v), sep>> \o Join(Tail(v), sep)

\* rpc.go:255-265: r.Form holds the query's values (the body is not parsed
\* for this content type); each value list is joined and marshalled as a
\* JSON string
FormJSON(query) ==
    [k \in QueryKeys(query) |-> [type |-> "string", v |-> Join(ValuesOf(query, k), ",")]]

\* rpc.go:274: qson.ToJSON(r.URL.RawQuery), for flat keys: each value is
\* unmarshalled as a JSON literal (the numeric values used here as numbers)
QsonJSON(query) ==
    [k \in QueryKeys(query) |->
        [type |-> "number", v |-> ValuesOf(query, k)[Len(ValuesOf(query, k))]]]

\* mutant: the error of buf.ReadFrom is dropped
ReadBody_IgnoreError(body, bsize) == PayloadOK("bytes", BodyAvail(body, bsize))

\* rpc.go:277-282: buf.ReadFrom(r.Body) then buf.Bytes()
ReadBody(body, bsize) ==
    IF BodyTooLarge(body, bsize) THEN PayloadErr("request body too large")
    ELSE PayloadOK("bytes", body)

\* rpc.go:220-286
requestPayload(r, bsize) ==
    IF Contains(r.contentType, CT_json_rpc) THEN DecodeEnvelope(r.body, bsize)
    ELSE IF Contains(r.contentType, CT_proto_rpc)
            \/ Contains(r.contentType, CT_octet_stream)
        THEN DecodeEnvelope(r.body, bsize)
    ELSE IF Contains(r.contentType, CT_form)
        THEN PayloadOK("json", FormJSON(r.query))
    ELSE IF r.method = "GET"
        THEN IF Len(r.query) > 0 THEN PayloadOK("json", QsonJSON(r.query))
             ELSE PayloadOK("bytes", <<>>)
    ELSE IF r.method \in {"PATCH", "POST"} THEN ReadBody(r.body, bsize)
    ELSE PayloadOK("bytes", <<>>)

\* stream.go:253-269
HeaderContains(header, val) ==
    LET vv == Split(header, ",")
    IN  \E i \in 1..Len(vv) : val = ToLower(TrimSpace(vv[i]))

isWebSocket(r) ==
    HeaderContains(r.connection, H_upgrade) /\ HeaderContains(r.upgrade, H_websocket)

\* mutant: the endpoint's name is not compared with the requested one
isStream_AnyEndpoint(r, srv) ==
    /\ isWebSocket(r)
    /\ \E i \in 1..Len(srv.services) :
         \E j \in 1..Len(srv.services[i]) :
            srv.services[i][j].stream = "true"

\* stream.go:232-251
isStream(r, srv) ==
    /\ isWebSocket(r)
    /\ \E i \in 1..Len(srv.services) :
         \E j \in 1..Len(srv.services[i]) :
            /\ srv.services[i][j].name = srv.endpointName
            /\ srv.services[i][j].stream = "true"

\* stream.go:50-60: every hint sets binary framing, "binary" or not
RECURSIVE ProtoLoop(_, _)
ProtoLoop(proto, op0) ==
    IF proto = <<>> THEN op0
    ELSE ProtoLoop(Tail(proto),
                   IF Head(proto) = "binary" THEN OpBinary ELSE OpBinary)

\* stream.go:41-60
NegotiateOp(c, r) ==
    LET op0 == IF c = CT_json THEN OpText ELSE OpBinary
    IN  IF r.hasProto THEN ProtoLoop(r.proto, op0) ELSE op0

(***************************************************************************)
(* The http.ResponseWriter: the header map w.Header(), and what WriteHeader *)
(* committed.  Headers set after WriteHeader stay in the map and are not    *)
(* sent.                                                                    *)
(***************************************************************************)
NoHeader ==
    [keys |-> {}, ContentType |-> <<>>, ContentLength |-> 0, Trailer |-> "",
     grpcStatus |-> "", grpcMessage |-> <<>>]

NewWriter ==
    [header |-> NoHeader, committed |-> FALSE, status |-> 0, sent |-> NoHeader,
     wrote |-> FALSE, body |-> [kind |-> "none", code |-> 0, detail |-> <<>>, data |-> <<>>]]

\* w.WriteHeader(code)
WriteHeader(wr, code) ==
    IF wr.committed THEN wr
    ELSE [wr EXCEPT !.committed = TRUE, !.status = code, !.sent = wr.header]

\* w.Write(b): commits status 200 if nothing is committed yet
Write(wr, b) ==
    [WriteHeader(wr, 200) EXCEPT !.wrote = TRUE, !.body = b]

SetContentType(wr, v) ==
    [wr EXCEPT !.header.ContentType = v, !.header.keys = @ \cup {"Content-Type"}]

SetContentLength(wr, n) ==
    [wr EXCEPT !.header.ContentLength = n, !.header.keys = @ \cup {"Content-Length"}]

\* rpc.go:307-312, 327-332: the grpc trailers
SetTrailers(wr, status, message) ==
    [wr EXCEPT !.header.Trailer = "grpc-message",
               !.header.grpcStatus = status,
               !.header.grpcMessage = message,
               !.header.keys = @ \cup {"Trailer", "grpc-status", "grpc-message"}]

\* rpc.go:288-320: err is [code, detail]; code 0 is an error that
\* errors.Parse could not read
writeError(wr, r, err) ==
    LET ce == IF err.code = 0
              THEN [code |-> 500, detail |-> <<"error during request: ", err.detail>>]
              ELSE [code |-> err.code, detail |-> <<err.detail>>]
        w1 == WriteHeader(wr, ce.code)
        w2 == SetContentType(w1, CT_json)
        w3 == IF Contains(r.contentType, CT_grpc)
              THEN SetTrailers(w2, "13", ce.detail)
              ELSE w2
    IN  Write(w3, [kind |-> "error", code |-> ce.code, detail |-> ce.detail, data |-> <<>>])

\* rpc.go:322-342
writeResponse(wr, r, body) ==
    LET w1 == SetContentType(wr, r.contentType)
        w2 == SetContentLength(w1, Len(body))
        w3 == IF Contains(r.contentType, CT_grpc)
              THEN SetTrailers(w2, "0", <<>>)
              ELSE w2
    IN  Write(w3, [kind |-> "bytes", code |-> 0, detail |-> <<>>, data |-> body])

(***************************************************************************)
(* State.                                                                  *)
(***************************************************************************)
VARIABLES
    req,            \* the http request being served
    cfg,            \* the handler: [maxRecvSize, hasService, hasRouter, routeOK, service]
    pc,             \* position of ServeHTTP / serveWebsocket
    ct,             \* serveWebsocket's local ct
    op,             \* the negotiated framing op
    payload,        \* result of requestPayload
    request,        \* the wrapped initial request: [wrapper, data]
    mainBuf,        \* the chunk the downstream relay has read
    pcWL,           \* position of writeLoop ("none" before go writeLoop)
    wlFrame,        \* the frame writeLoop has read: [op, data]
    wlRead,         \* history: every frame ReadClientData returned to writeLoop
    wlExit,         \* why writeLoop returned
    connState,      \* the upgraded connection: "none", "open", "closed"
    connIn,         \* frames and close sent by the client, not yet read
    framesSent,     \* number of frames the client has sent
    clientState,    \* "open" until the client sends its close
    connBroken,     \* the transport under the connection has failed
    rwOut,          \* messages in rw's buffered writer, not yet flushed
    connOut,        \* messages flushed to the connection
    streamOpen,     \* c.Stream returned a stream
    closeCount,     \* number of calls of stream.Close
    closers,        \* who called stream.Close
    streamCtxDone,  \* stream.Context() is done
    streamSent,     \* frames accepted by stream.Send: [by, wrapper, data]
    rspQ,           \* chunks on the backend response channel, not yet read
    chunksSent,     \* number of chunks the backend has produced
    ctxDone,        \* the request's context is cancelled
    logged,         \* errors logged: [by, err]
    w,              \* the http.ResponseWriter: header map, committed status and headers, body
    rsp,            \* the unary response bytes
    backendCalls,   \* c.Call and c.Stream calls issued: [kind, contentType, wrapper, data]
    events,         \* which of serveWebsocket and Upgrade have been entered
    hp,             \* concurrent requests in requestPayload: [pc, body, buf, pooled, err, payload, forwarded]
    bufs,           \* the bytes.Buffer objects: [arr, len]
    arrays,         \* the backing arrays: [cap, data]
    poolChan        \* the buffers held by bufferPool

vars ==
    <<req, cfg, pc, ct, op, payload, request, mainBuf, pcWL, wlFrame, wlRead, wlExit,
      connState, connIn, framesSent, clientState, connBroken, rwOut, connOut,
      streamOpen, closeCount, closers, streamCtxDone, streamSent, rspQ,
      chunksSent, ctxDone, logged, w, rsp, backendCalls, events, hp, bufs, arrays,
      poolChan>>

reqVars == <<req, cfg>>
poolVars == <<hp, bufs, arrays, poolChan>>
unaryVars == <<w, rsp>>
traceVars == <<backendCalls, events>>
localVars == <<ct, op, payload, request, mainBuf>>
wlVars == <<pcWL, wlFrame, wlRead, wlExit>>
clientVars == <<connIn, framesSent, clientState, connBroken>>
outVars == <<rwOut, connOut>>
closeVars == <<closeCount, closers>>
backendVars == <<rspQ, chunksSent>>

NoFrame == [op |-> "none", data |-> 0]
NoPayload == PayloadOK("bytes", <<>>)
NoRequest == [wrapper |-> "none", data |-> NoPayload]

Log(by, e) == logged' = logged \cup {[by |-> by, err |-> e]}

(***************************************************************************)
(* serveWebsocket (stream.go:22-182).                                      *)
(***************************************************************************)
\* stream.go:62-67, 85-90: a return before the deferred conn.Close exists
EarlyReturn ==
    /\ pc' = "done"
    /\ UNCHANGED <<connState, closeVars>>

\* mutant: serveWebsocket also closes the stream when it returns
ServeReturn_ClosesStream ==
    /\ pc' = "done"
    /\ connState' = "closed"
    /\ closeCount' = closeCount + 1
    /\ closers' = closers \cup {"serveWebsocket"}

\* mutant: the deferred conn.Close is missing
ServeReturn_NoConnClose ==
    /\ pc' = "done"
    /\ UNCHANGED <<connState, closeVars>>

\* stream.go:92-99: every later return runs the deferred conn.Close; the
\* stream is not closed here
ServeReturn ==
    /\ pc' = "done"
    /\ connState' = "closed"
    /\ UNCHANGED closeVars

StayOpen == UNCHANGED <<connState, closeVars>>

\* stream.go:25-60
WSNegotiate ==
    /\ pc = "ws_entry"
    /\ ct' = StripParams(req.contentType)
    /\ op' = NegotiateOp(StripParams(req.contentType), req)
    /\ pc' = "ws_payload"
    /\ events' = events \cup {"serveWebsocket"}
    /\ UNCHANGED <<reqVars, poolVars, unaryVars, backendCalls, payload, request,
                   mainBuf, wlVars, connState, clientVars, outVars, streamOpen,
                   closeVars, streamCtxDone, backendVars, streamSent, ctxDone, logged>>

\* mutant: the error of requestPayload is logged and the session goes on
WSPayload_NoReturn ==
    /\ pc = "ws_payload"
    /\ LET p == requestPayload(req, bsizeOf(cfg.maxRecvSize))
       IN  /\ payload' = p
           /\ pc' = "ws_upgrade"
           /\ StayOpen
           /\ IF p.err # "" THEN Log("serveWebsocket", p.err) ELSE UNCHANGED logged
    /\ UNCHANGED <<reqVars, poolVars, unaryVars, traceVars, ct, op, request, mainBuf,
                   wlVars, clientVars, outVars, streamOpen, streamCtxDone, backendVars,
                   streamSent, ctxDone>>

\* stream.go:61-67
WSPayload ==
    /\ pc = "ws_payload"
    /\ LET p == requestPayload(req, bsizeOf(cfg.maxRecvSize))
       IN  /\ payload' = p
           /\ IF p.err # ""
              THEN Log("serveWebsocket", p.err) /\ EarlyReturn
              ELSE pc' = "ws_upgrade" /\ StayOpen /\ UNCHANGED logged
    /\ UNCHANGED <<reqVars, poolVars, unaryVars, traceVars, ct, op, request, mainBuf,
                   wlVars, clientVars, outVars, streamOpen, streamCtxDone, backendVars,
                   streamSent, ctxDone>>

\* mutant: conn.Close is called where it should be deferred
WSUpgrade_CloseNotDeferred ==
    /\ pc = "ws_upgrade"
    /\ connState' = "closed"
    /\ pc' = "ws_open"
    /\ events' = events \cup {"Upgrade"}
    /\ UNCHANGED <<closeVars, logged>>
    /\ UNCHANGED <<reqVars, poolVars, unaryVars, backendCalls, localVars, wlVars,
                   clientVars, outVars, streamOpen, streamCtxDone, backendVars,
                   streamSent, ctxDone>>

\* stream.go:69-99: the handshake succeeds or fails
WSUpgrade ==
    /\ pc = "ws_upgrade"
    /\ \E ok \in BOOLEAN :
         IF ok
         THEN /\ connState' = "open"
              /\ pc' = "ws_open"
              /\ UNCHANGED <<closeVars, logged>>
         ELSE Log("serveWebsocket", "upgrade") /\ EarlyReturn
    /\ events' = events \cup {"Upgrade"}
    /\ UNCHANGED <<reqVars, poolVars, unaryVars, backendCalls, localVars, wlVars,
                   clientVars, outVars, streamOpen, streamCtxDone, backendVars,
                   streamSent, ctxDone>>

\* stream.go:103-109
WrapRequest(c, p) ==
    IF c = CT_json THEN [wrapper |-> "RawMessage", data |-> p]
    ELSE [wrapper |-> "Frame", data |-> p]

\* mutant: the return on a failed c.Stream does not close the connection
WSOpenStream_ConnLeftOpen ==
    /\ pc = "ws_open"
    /\ request' = WrapRequest(ct, payload)
    /\ ct' = IF ct = CT_empty THEN CT_json ELSE ct
    /\ backendCalls' = Append(backendCalls,
            [kind |-> "Stream", contentType |-> ct',
             wrapper |-> request'.wrapper, data |-> payload])
    /\ \E ok \in BOOLEAN :
         IF ok
         THEN /\ streamOpen' = TRUE
              /\ pc' = "ws_send"
              /\ StayOpen
              /\ UNCHANGED logged
         ELSE /\ Log("serveWebsocket", "stream")
              /\ EarlyReturn
              /\ UNCHANGED streamOpen
    /\ UNCHANGED <<reqVars, poolVars, unaryVars, events, op, payload, mainBuf, wlVars,
                   clientVars, outVars, streamCtxDone, backendVars, streamSent,
                   ctxDone>>

\* stream.go:101-131: wrap the payload, default the content type, open the stream
WSOpenStream ==
    /\ pc = "ws_open"
    /\ request' = WrapRequest(ct, payload)
    /\ ct' = IF ct = CT_empty THEN CT_json ELSE ct
    /\ backendCalls' = Append(backendCalls,
            [kind |-> "Stream", contentType |-> ct',
             wrapper |-> request'.wrapper, data |-> payload])
    /\ \E ok \in BOOLEAN :
         IF ok
         THEN /\ streamOpen' = TRUE
              /\ pc' = "ws_send"
              /\ StayOpen
              /\ UNCHANGED logged
         ELSE /\ Log("serveWebsocket", "stream")
              /\ ServeReturn
              /\ UNCHANGED streamOpen
    /\ UNCHANGED <<reqVars, poolVars, unaryVars, events, op, payload, mainBuf, wlVars,
                   clientVars, outVars, streamCtxDone, backendVars, streamSent,
                   ctxDone>>

\* stream.Send fails only on a stream that has ended
StreamBroken == streamCtxDone
SendOutcomes == IF StreamBroken THEN BOOLEAN ELSE {TRUE}

\* stream.go:133-140: request is a non-nil pointer, so it is always sent
WSSendInitial ==
    /\ pc = "ws_send"
    /\ \E ok \in SendOutcomes :
         IF ok
         THEN /\ streamSent' = Append(streamSent,
                    [by |-> "serveWebsocket", wrapper |-> request.wrapper,
                     data |-> request.data])
              /\ pc' = "ws_spawn"
              /\ StayOpen
              /\ UNCHANGED logged
         ELSE /\ Log("serveWebsocket", "send")
              /\ ServeReturn
              /\ UNCHANGED streamSent
    /\ UNCHANGED <<reqVars, poolVars, unaryVars, traceVars, localVars, wlVars,
                   clientVars, outVars, streamOpen, streamCtxDone, backendVars,
                   ctxDone>>

\* stream.go:142-144: go writeLoop(rw, stream)
WSSpawn ==
    /\ pc = "ws_spawn"
    /\ pcWL' = "select"
    /\ pc' = "select"
    /\ UNCHANGED <<reqVars, poolVars, unaryVars, traceVars, localVars, wlFrame, wlRead,
                   wlExit, connState, clientVars, outVars, streamOpen, closeVars,
                   streamCtxDone, backendVars, streamSent, ctxDone, logged>>

\* stream.go:148-153: the select of the downstream relay
MainSelect ==
    /\ pc = "select"
    /\ IF ctxDone \/ streamCtxDone
       THEN ServeReturn
       ELSE pc' = "rsp_read" /\ StayOpen
    /\ UNCHANGED <<reqVars, poolVars, unaryVars, traceVars, localVars, wlVars,
                   clientVars, outVars, streamOpen, streamCtxDone, backendVars,
                   streamSent, ctxDone, logged>>

\* rsp.Read() returns when a chunk is there, or fails once the request's or
\* the stream's context is done; otherwise it blocks
RspReadErrors == {"context canceled", "rpc error"}

\* mutant: the stream is opened under a context of its own
StreamParents_Detached == {}

\* stream.go:125: c.Stream(ctx, req, ...): the stream is opened under the
\* request's context
StreamParents == {"request"}

\* a blocked rsp.Read() is ended by the stream's context, and by the context
\* the stream was opened under
RspReadInterrupted == streamCtxDone \/ ("request" \in StreamParents /\ ctxDone)

\* stream.go:155-165
MainRspRead ==
    /\ pc = "rsp_read"
    /\ \/ /\ rspQ # <<>>
          /\ mainBuf' = Head(rspQ)
          /\ rspQ' = Tail(rspQ)
          /\ pc' = "write"
          /\ StayOpen
          /\ UNCHANGED logged
       \/ /\ RspReadInterrupted
          /\ \E e \in RspReadErrors :
               IF e = "context canceled"
               THEN UNCHANGED logged
               ELSE Log("serveWebsocket", e)
          /\ ServeReturn
          /\ UNCHANGED <<mainBuf, rspQ>>
    /\ UNCHANGED <<reqVars, poolVars, unaryVars, traceVars, ct, op, payload, request,
                   wlVars, clientVars, outVars, streamOpen, streamCtxDone, chunksSent,
                   streamSent, ctxDone>>

\* a write into rw's buffer can only fail on a broken connection
WriteOutcomes == IF connBroken THEN BOOLEAN ELSE {TRUE}

\* stream.go:167-173
MainWrite ==
    /\ pc = "write"
    /\ \E ok \in WriteOutcomes :
         IF ok
         THEN /\ rwOut' = Append(rwOut,
                    [by |-> "serveWebsocket", op |-> op, data |-> mainBuf])
              /\ pc' = "flush"
              /\ StayOpen
              /\ UNCHANGED logged
         ELSE /\ Log("serveWebsocket", "write")
              /\ ServeReturn
              /\ UNCHANGED rwOut
    /\ UNCHANGED <<reqVars, poolVars, unaryVars, traceVars, localVars, wlVars,
                   clientVars, connOut, streamOpen, streamCtxDone, backendVars,
                   streamSent, ctxDone>>

\* mutant: the flush after the write is missing
MainFlush_NoFlush ==
    /\ pc = "flush"
    /\ pc' = "select"
    /\ StayOpen
    /\ UNCHANGED <<outVars, logged>>
    /\ UNCHANGED <<reqVars, poolVars, unaryVars, traceVars, localVars, wlVars,
                   clientVars, streamOpen, streamCtxDone, backendVars, streamSent,
                   ctxDone>>

\* stream.go:174-179
MainFlush ==
    /\ pc = "flush"
    /\ IF connBroken
       THEN /\ Log("serveWebsocket", "flush")
            /\ ServeReturn
            /\ UNCHANGED outVars
       ELSE /\ connOut' = connOut \o rwOut
            /\ rwOut' = <<>>
            /\ pc' = "select"
            /\ StayOpen
            /\ UNCHANGED logged
    /\ UNCHANGED <<reqVars, poolVars, unaryVars, traceVars, localVars, wlVars,
                   clientVars, streamOpen, streamCtxDone, backendVars, streamSent,
                   ctxDone>>

(***************************************************************************)
(* writeLoop (stream.go:185-230).                                          *)
(***************************************************************************)
\* mutant: closing the stream leaves its context as it is
StreamClose_NoCancel(by) ==
    /\ closeCount' = closeCount + 1
    /\ closers' = closers \cup {by}
    /\ UNCHANGED streamCtxDone

\* stream.Close(): counted, and it ends the stream's context (the client
\* cancels the stream's context when the stream is closed)
StreamClose(by) ==
    /\ closeCount' = closeCount + 1
    /\ closers' = closers \cup {by}
    /\ streamCtxDone' = TRUE

\* stream.go:187: every return of writeLoop runs the deferred stream.Close
WLReturn(reason) ==
    /\ pcWL' = "done"
    /\ wlExit' = reason
    /\ StreamClose("writeLoop")

\* stream.go:190-193
WLSelect ==
    /\ pcWL = "select"
    /\ IF streamCtxDone
       THEN WLReturn([kind |-> "ctxDone", code |-> 0])
       ELSE /\ pcWL' = "read"
            /\ UNCHANGED <<wlExit, closeVars, streamCtxDone>>
    /\ UNCHANGED <<reqVars, poolVars, unaryVars, traceVars, pc, localVars, wlFrame,
                   wlRead, connState, clientVars, outVars, streamOpen, backendVars,
                   streamSent, ctxDone, logged>>

\* mutant: only going-away is taken as a silent close
IsBenignClose_OnlyGoingAway(code) == code = StatusGoingAway

\* stream.go:197-204: the close codes that end the relay silently
IsBenignClose(code) ==
    \/ code = StatusGoingAway
    \/ code = StatusNormalClosure
    \/ code = StatusNoStatusRcvd

\* mutant: the opcode switch lets every frame through
IsDataOp_All(o) == TRUE

\* stream.go:211-217: only text and binary frames are forwarded
IsDataOp(o) == o = OpText \/ o = OpBinary

\* stream.go:194: wsutil.ReadClientData(rw) answers the control frames it
\* meets, writing the answer into the writer part of rw: a pong for a ping,
\* the close frame for a close
ControlReply(frame) ==
    IF frame.op = OpPing
    THEN <<[by |-> "writeLoop", op |-> OpPong, data |-> frame.data]>>
    ELSE IF frame.op = OpClose
    THEN <<[by |-> "writeLoop", op |-> OpClose, data |-> frame.data]>>
    ELSE <<>>

\* stream.go:194-217: wsutil.ReadClientData returns the next frame, a
\* ClosedError for the client's close, or another error once the connection
\* is closed or broken; otherwise it blocks
WLRead ==
    /\ pcWL = "read"
    /\ \/ /\ connIn # <<>>
          /\ Head(connIn).op # OpClose
          /\ connIn' = Tail(connIn)
          /\ rwOut' = rwOut \o ControlReply(Head(connIn))
          /\ wlRead' = Append(wlRead, Head(connIn))
          /\ IF IsDataOp(Head(connIn).op)
             THEN wlFrame' = Head(connIn) /\ pcWL' = "send"
             ELSE pcWL' = "select" /\ UNCHANGED wlFrame
          /\ UNCHANGED <<wlExit, closeVars, streamCtxDone, logged>>
       \/ /\ connIn # <<>>
          /\ Head(connIn).op = OpClose
          /\ connIn' = Tail(connIn)
          /\ rwOut' = rwOut \o ControlReply(Head(connIn))
          /\ IF IsBenignClose(Head(connIn).data)
             THEN UNCHANGED logged
             ELSE Log("writeLoop", "closed")
          /\ WLReturn([kind |-> "closed", code |-> Head(connIn).data])
          /\ UNCHANGED <<wlFrame, wlRead>>
       \/ /\ connState = "closed" \/ connBroken
          /\ Log("writeLoop", "read")
          /\ WLReturn([kind |-> "readError", code |-> 0])
          /\ UNCHANGED <<wlFrame, wlRead, connIn, rwOut>>
    /\ UNCHANGED <<reqVars, poolVars, unaryVars, traceVars, pc, localVars, connState,
                   framesSent, clientState, connBroken, connOut, streamOpen,
                   backendVars, streamSent, ctxDone>>

\* stream.go:218-227
WLSend ==
    /\ pcWL = "send"
    /\ \E ok \in SendOutcomes :
         IF ok
         THEN /\ streamSent' = Append(streamSent,
                    [by |-> "writeLoop", wrapper |-> "Frame", data |-> wlFrame.data])
              /\ pcWL' = "select"
              /\ UNCHANGED <<wlExit, closeVars, streamCtxDone, logged>>
         ELSE /\ Log("writeLoop", "send")
              /\ WLReturn([kind |-> "sendError", code |-> 0])
              /\ UNCHANGED streamSent
    /\ UNCHANGED <<reqVars, poolVars, unaryVars, traceVars, pc, localVars, wlFrame,
                   wlRead, connState, clientVars, outVars, streamOpen, backendVars,
                   ctxDone>>

(***************************************************************************)
(* The environment: the client on the connection, the backend, the         *)
(* request's context.                                                      *)
(***************************************************************************)
ClientOps == {OpText, OpBinary, OpPing}
CloseCodes == {StatusNormalClosure, StatusGoingAway, StatusNoStatusRcvd, 1002}

\* the client sends its next frame; frame k carries the data k
ClientSend ==
    /\ connState = "open" /\ clientState = "open" /\ ~connBroken
    /\ framesSent < MaxFrames
    /\ \E o \in ClientOps :
         connIn' = Append(connIn, [op |-> o, data |-> framesSent + 1])
    /\ framesSent' = framesSent + 1
    /\ UNCHANGED <<reqVars, poolVars, unaryVars, traceVars, pc, localVars, wlVars,
                   connState, clientState, connBroken, outVars, streamOpen, closeVars,
                   streamCtxDone, backendVars, streamSent, ctxDone, logged>>

\* the client closes with a status code
ClientClose ==
    /\ connState = "open" /\ clientState = "open" /\ ~connBroken
    /\ \E code \in CloseCodes :
         connIn' = Append(connIn, [op |-> OpClose, data |-> code])
    /\ clientState' = "closed"
    /\ UNCHANGED <<reqVars, poolVars, unaryVars, traceVars, pc, localVars, wlVars,
                   connState, framesSent, connBroken, outVars, streamOpen, closeVars,
                   streamCtxDone, backendVars, streamSent, ctxDone, logged>>

\* the transport under the connection fails
NetBreak ==
    /\ connState = "open" /\ streamOpen /\ ~connBroken
    /\ connBroken' = TRUE
    /\ UNCHANGED <<reqVars, poolVars, unaryVars, traceVars, pc, localVars, wlVars,
                   connState, connIn, framesSent, clientState, outVars, streamOpen,
                   closeVars, streamCtxDone, backendVars, streamSent, ctxDone, logged>>

\* the backend produces its next chunk; chunk k carries the data k
BackendChunk ==
    /\ streamOpen /\ ~StreamBroken
    /\ chunksSent < MaxChunks
    /\ rspQ' = Append(rspQ, chunksSent + 1)
    /\ chunksSent' = chunksSent + 1
    /\ UNCHANGED <<reqVars, poolVars, unaryVars, traceVars, pc, localVars, wlVars,
                   connState, clientVars, outVars, streamOpen, closeVars,
                   streamCtxDone, streamSent, ctxDone, logged>>

\* the backend ends the stream: its context becomes done
BackendEnd ==
    /\ streamOpen /\ ~streamCtxDone
    /\ streamCtxDone' = TRUE
    /\ UNCHANGED <<reqVars, poolVars, unaryVars, traceVars, pc, localVars, wlVars,
                   connState, clientVars, outVars, streamOpen, closeVars, backendVars,
                   streamSent, ctxDone, logged>>

\* the request's context is cancelled
CtxCancel ==
    /\ streamOpen /\ pc # "done" /\ ~ctxDone
    /\ ctxDone' = TRUE
    /\ UNCHANGED <<reqVars, poolVars, unaryVars, traceVars, pc, localVars, wlVars,
                   connState, clientVars, outVars, streamOpen, closeVars,
                   streamCtxDone, backendVars, streamSent, logged>>

(***************************************************************************)
(* The bridge session: serveWebsocket entered for a streaming request.     *)
(***************************************************************************)
Endpoint(n, st) == [name |-> n, stream |-> st]

StreamService ==
    [endpointName |-> "Svc.Stream",
     services |-> << <<Endpoint("Svc.Call", ""), Endpoint("Svc.Stream", "true")>> >>]

Request(m, c, conn, upg, has, pr, q, b) ==
    [method |-> m, contentType |-> c, connection |-> conn, upgrade |-> upg,
     hasProto |-> has, proto |-> pr, query |-> q, body |-> b]

SessionRequests ==
    { Request("GET", CT_json, H_Upgrade, H_websocket, FALSE, <<>>, << <<"a", "1">> >>, <<>>),
      Request("POST", CT_protobuf, H_keepalive_Upgrade, H_WebSocket, TRUE, <<"binary">>,
              <<>>, <<1, 2>>) }

SessionConfigs ==
    { [maxRecvSize |-> 1, hasService |-> TRUE, hasRouter |-> FALSE, routeOK |-> TRUE,
       service |-> StreamService] }

InitCommon ==
    /\ ct = CT_empty
    /\ op = OpBinary
    /\ payload = NoPayload
    /\ request = NoRequest
    /\ mainBuf = 0
    /\ pcWL = "none"
    /\ wlFrame = NoFrame
    /\ wlRead = <<>>
    /\ wlExit = [kind |-> "running", code |-> 0]
    /\ connState = "none"
    /\ connIn = <<>>
    /\ framesSent = 0
    /\ clientState = "open"
    /\ connBroken = FALSE
    /\ rwOut = <<>>
    /\ connOut = <<>>
    /\ streamOpen = FALSE
    /\ closeCount = 0
    /\ closers = {}
    /\ streamCtxDone = FALSE
    /\ streamSent = <<>>
    /\ rspQ = <<>>
    /\ chunksSent = 0
    /\ ctxDone = FALSE
    /\ logged = {}
    /\ w = NewWriter
    /\ rsp = <<>>
    /\ backendCalls = <<>>
    /\ events = {}

NoPool ==
    /\ hp = <<>>
    /\ bufs = <<>>
    /\ arrays = <<>>
    /\ poolChan = <<>>

Init ==
    /\ req \in SessionRequests
    /\ cfg \in SessionConfigs
    /\ isStream(req, cfg.service)
    /\ pc = "ws_entry"
    /\ InitCommon
    /\ NoPool

ServeStep ==
    \/ WSNegotiate
    \/ WSPayload
    \/ WSUpgrade
    \/ WSOpenStream
    \/ WSSendInitial
    \/ WSSpawn
    \/ MainSelect
    \/ MainRspRead
    \/ MainWrite
    \/ MainFlush

WLStep ==
    \/ WLSelect
    \/ WLRead
    \/ WLSend

EnvStep ==
    \/ ClientSend
    \/ ClientClose
    \/ NetBreak
    \/ BackendChunk
    \/ BackendEnd
    \/ CtxCancel

Next == ServeStep \/ WLStep \/ EnvStep

Spec == Init /\ [][Next]_vars

\* The two relays are goroutines the scheduler keeps running; the client,
\* the network and the backend are under no obligation to act.
FairSpec == Spec /\ WF_vars(ServeStep) /\ WF_vars(WLStep)

(***************************************************************************)
(* ServeHTTP (rpc.go:73-202).                                              *)
(***************************************************************************)
relayVars ==
    <<mainBuf, wlVars, connState, clientVars, outVars, streamOpen, closeVars,
      streamCtxDone, backendVars, streamSent, ctxDone, logged>>

\* rpc.go:84-99: the service is given, or routed, or there is no route
SHRoute ==
    /\ pc = "entry"
    /\ IF cfg.hasService \/ (cfg.hasRouter /\ cfg.routeOK)
       THEN pc' = "method" /\ UNCHANGED w
       ELSE /\ w' = writeError(w, req,
                      [code |-> 500,
                       detail |-> IF cfg.hasRouter THEN "route" ELSE "no route found"])
            /\ pc' = "done"
    /\ UNCHANGED <<reqVars, poolVars, rsp, traceVars, ct, op, payload, request,
                   relayVars>>

\* rpc.go:101-105
SHMethod ==
    /\ pc = "method"
    /\ IF req.method # "GET" /\ (cfg.hasRouter /\ req.method # "POST")
       THEN /\ w' = writeError(w, req, [code |-> 405, detail |-> "method not allowed"])
            /\ pc' = "done"
       ELSE pc' = "dispatch" /\ UNCHANGED w
    /\ UNCHANGED <<reqVars, poolVars, rsp, traceVars, ct, op, payload, request,
                   relayVars>>

\* rpc.go:107-124
SHDispatch ==
    /\ pc = "dispatch"
    /\ ct' = StripParams(req.contentType)
    /\ IF isStream(req, cfg.service)
       THEN pc' = "ws_entry"
       ELSE pc' = "unary"
    /\ UNCHANGED <<reqVars, poolVars, unaryVars, traceVars, op, payload, request,
                   relayVars>>

\* rpc.go:131-136
SHPayload ==
    /\ pc = "unary"
    /\ LET p == requestPayload(req, bsizeOf(cfg.maxRecvSize))
       IN  /\ payload' = p
           /\ IF p.err # ""
              THEN /\ w' = writeError(w, req, [code |-> 0, detail |-> p.err])
                   /\ pc' = "done"
              ELSE pc' = "call" /\ UNCHANGED w
    /\ UNCHANGED <<reqVars, poolVars, rsp, traceVars, ct, op, request, relayVars>>

\* len(br), for the two representations of a payload
PayloadLen(p) == IF p.kind = "json" THEN 2 + Cardinality(DOMAIN p.data) ELSE Len(p.data)

\* rpc.go:140-188: the request built for c.Call
UnaryCall(c, br) ==
    IF hasCodec(c, protoCodecs)
    THEN [kind |-> "Call", contentType |-> c, wrapper |-> "proto.Message",
          data |-> IF PayloadLen(br) > 0 THEN br ELSE PayloadOK("bytes", <<>>)]
    ELSE [kind |-> "Call",
          contentType |-> IF ~hasCodec(c, jsonCodecs) THEN CT_json ELSE c,
          wrapper |-> "RawMessage",
          data |-> IF PayloadLen(br) > 0 THEN br ELSE PayloadOK("null", <<>>)]

\* what c.Call returns: a response, or an error with a code errors.Parse
\* reads (404) or cannot read (0)
CallErrors == {[code |-> 0, detail |-> "boom"], [code |-> 404, detail |-> "not found"]}
CallResponses == {<<7>>}

\* rpc.go:140-198
SHCall ==
    /\ pc = "call"
    /\ ct' = UnaryCall(ct, payload).contentType
    /\ backendCalls' = Append(backendCalls, UnaryCall(ct, payload))
    /\ \/ \E e \in CallErrors :
            /\ w' = writeError(w, req, e)
            /\ pc' = "done"
            /\ UNCHANGED rsp
       \/ \E r \in CallResponses :
            /\ rsp' = r
            /\ pc' = "respond"
            /\ UNCHANGED w
    /\ UNCHANGED <<reqVars, poolVars, events, op, payload, request, relayVars>>

\* rpc.go:200-201
SHRespond ==
    /\ pc = "respond"
    /\ w' = writeResponse(w, req, rsp)
    /\ pc' = "done"
    /\ UNCHANGED <<reqVars, poolVars, rsp, traceVars, ct, op, payload, request,
                   relayVars>>

(***************************************************************************)
(* Dispatch of a request: ServeHTTP from its entry to the response of a    *)
(* unary call, or to the start of the two relays of a streaming session    *)
(* (the session itself is what Spec explores).                             *)
(***************************************************************************)
Methods == {"GET", "POST", "PATCH", "PUT"}
ContentTypes ==
    {CT_empty, CT_json, CT_json_charset, CT_json_rpc, CT_octet_stream, CT_form,
     CT_x_www_form, CT_grpc, CT_protobuf_charset, CT_text_plain}
UpgradeHeaders ==
    {<<H_Upgrade, H_WebSocket>>, <<H_keepalive_Upgrade, H_h2c_websocket>>,
     <<H_upgrades, H_websocket>>, <<H_upgrade, H_h2c>>, <<H_keepalive, H_websocket>>}
ProtoHeaders ==
    {[has |-> FALSE, vals |-> <<>>], [has |-> TRUE, vals |-> <<"binary">>],
     [has |-> TRUE, vals |-> <<"json">>], [has |-> TRUE, vals |-> <<"json", "binary">>]}
Queries == {<<>>, << <<"a", "1">>, <<"b", "2">> >>}
Bodies == {<<>>, <<1, 7>>, <<2, 7, 8>>}

DispatchRequests ==
    { Request(m, c, u[1], u[2], p.has, p.vals, q, b) :
        m \in Methods, c \in ContentTypes, u \in UpgradeHeaders, p \in ProtoHeaders,
        q \in Queries, b \in Bodies }

\* the requested endpoint streams; only another endpoint streams; the
\* requested endpoint streams on the second instance only; it does not stream
Services ==
    { StreamService,
      [endpointName |-> "Svc.Call",
       services |-> << <<Endpoint("Svc.Call", ""), Endpoint("Svc.Stream", "true")>> >>],
      [endpointName |-> "Svc.Stream",
       services |-> << <<Endpoint("Svc.Stream", "")>>, <<Endpoint("Svc.Stream", "true")>> >>],
      [endpointName |-> "Svc.Stream",
       services |-> << <<Endpoint("Svc.Stream", "false")>> >>] }

Handler(m, hs, hr, ok, srv) ==
    [maxRecvSize |-> m, hasService |-> hs, hasRouter |-> hr, routeOK |-> ok,
     service |-> srv]

\* WithService(s), NewHandler with a router that routes or fails, NewHandler
\* without a router, WithService(s) with a router; opts.MaxRecvSize unset or 2
DispatchConfigs ==
    { Handler(m, TRUE, FALSE, TRUE, srv) : m \in {0, 2}, srv \in Services }
    \cup { Handler(m, FALSE, TRUE, ok, StreamService) : m \in {0, 2}, ok \in BOOLEAN }
    \cup { Handler(0, FALSE, FALSE, FALSE, StreamService),
           Handler(0, TRUE, TRUE, TRUE, StreamService) }

DispatchInit ==
    /\ req \in DispatchRequests
    /\ cfg \in DispatchConfigs
    /\ pc = "entry"
    /\ InitCommon
    /\ NoPool

DispatchNext ==
    \/ SHRoute
    \/ SHMethod
    \/ SHDispatch
    \/ SHPayload
    \/ SHCall
    \/ SHRespond
    \/ WSNegotiate
    \/ WSPayload
    \/ WSUpgrade
    \/ WSOpenStream
    \/ WSSendInitial
    \/ WSSpawn

DispatchSpec == DispatchInit /\ [][DispatchNext]_vars

(***************************************************************************)
(* The buffer pool (rpc.go:49, 276-283): concurrent POST requests in       *)
(* requestPayload, each taking a buffer from bufferPool, reading its body  *)
(* into it, returning buf.Bytes() and putting the buffer back, and then    *)
(* forwarding the payload.  A payload is a slice [arr, len] of a backing   *)
(* array, as buf.Bytes() is.                                               *)
(***************************************************************************)
\* requests served concurrently
NumRequests == 2

\* rpc.go:49: bpool.NewSizedBufferPool(1024, 8): 1024 buffers held at most,
\* each created with capacity 8
PoolSize == 1024

\* mutant: the two arguments of NewSizedBufferPool swapped
PoolAlloc_Swapped == PoolSize

PoolAlloc == 8

\* bytes.MinRead: the free space ReadFrom asks of the buffer before a Read
MinRead == 512

NoSlice == [arr |-> 0, len |-> 0]

\* the pool's steps touch nothing of the handler modelled above
PoolOnly ==
    UNCHANGED <<req, cfg, pc, ct, op, payload, request, mainBuf, pcWL, wlFrame, wlRead,
                wlExit, connState, connIn, framesSent, clientState, connBroken, rwOut,
                connOut, streamOpen, closeCount, closers, streamCtxDone, streamSent,
                rspQ, chunksSent, ctxDone, logged, w, rsp, backendCalls, events>>

\* the bytes a slice shows
View(sl) == IF sl.arr = 0 THEN <<>> ELSE SubSeq(arrays[sl.arr].data, 1, sl.len)

\* bytes written over the start of an array
Overwrite(old, bytes) == bytes \o SubSeq(old, Len(bytes) + 1, Len(old))

\* rpc.go:277: bufferPool.Get(): a pooled buffer, or a new one of capacity
\* PoolAlloc
PoolGet(i) ==
    /\ hp[i].pc = "get"
    /\ IF poolChan # <<>>
       THEN /\ hp' = [hp EXCEPT ![i].pc = "read", ![i].buf = Head(poolChan),
                                ![i].pooled = TRUE]
            /\ poolChan' = Tail(poolChan)
            /\ UNCHANGED <<bufs, arrays>>
       ELSE /\ arrays' = Append(arrays, [cap |-> PoolAlloc, data |-> <<>>])
            /\ bufs' = Append(bufs, [arr |-> Len(arrays) + 1, len |-> 0])
            /\ hp' = [hp EXCEPT ![i].pc = "read", ![i].buf = Len(bufs) + 1]
            /\ UNCHANGED poolChan
    /\ PoolOnly

\* rpc.go:279-282: buf.ReadFrom(r.Body) grows the buffer to MinRead free
\* bytes (a new backing array of 2*cap + MinRead when the old one is too
\* small) and reads the body up to the ceiling; buf.Bytes() is a slice of
\* the buffer's array
PoolReadFrom(i) ==
    /\ hp[i].pc = "read"
    /\ LET b == hp[i].buf
           old == arrays[bufs[b].arr]
           grows == old.cap - bufs[b].len < MinRead
           a == IF grows THEN Len(arrays) + 1 ELSE bufs[b].arr
           read == BodyAvail(hp[i].body, bsizeOf(cfg.maxRecvSize))
           written == [cap |-> IF grows THEN 2 * old.cap + MinRead ELSE old.cap,
                       data |-> Overwrite(IF grows THEN <<>> ELSE old.data, read)]
           failed == BodyTooLarge(hp[i].body, bsizeOf(cfg.maxRecvSize))
       IN  /\ arrays' = IF grows THEN Append(arrays, written)
                        ELSE [arrays EXCEPT ![a] = written]
           /\ bufs' = [bufs EXCEPT ![b] = [arr |-> a, len |-> Len(read)]]
           /\ hp' = [hp EXCEPT ![i].pc = "put",
                               ![i].err = failed,
                               ![i].payload = IF failed THEN NoSlice
                                              ELSE [arr |-> a, len |-> Len(read)]]
    /\ UNCHANGED poolChan
    /\ PoolOnly

\* rpc.go:278: the deferred bufferPool.Put(buf): the buffer is reset, replaced
\* by a new one of capacity PoolAlloc when its capacity is larger, and kept
\* unless the pool is full
PoolPut(i) ==
    /\ hp[i].pc = "put"
    /\ LET b == hp[i].buf
           replaced == arrays[bufs[b].arr].cap > PoolAlloc
           kept == IF replaced THEN Len(bufs) + 1 ELSE b
       IN  /\ arrays' = IF replaced
                        THEN Append(arrays, [cap |-> PoolAlloc, data |-> <<>>])
                        ELSE arrays
           /\ bufs' = IF replaced
                      THEN Append([bufs EXCEPT ![b].len = 0],
                                  [arr |-> Len(arrays) + 1, len |-> 0])
                      ELSE [bufs EXCEPT ![b].len = 0]
           /\ poolChan' = IF Len(poolChan) < PoolSize THEN Append(poolChan, kept)
                          ELSE poolChan
    /\ hp' = [hp EXCEPT ![i].pc = IF hp[i].err THEN "done" ELSE "call"]
    /\ PoolOnly

\* rpc.go:131-198: the caller forwards the payload it was given
PoolForward(i) ==
    /\ hp[i].pc = "call"
    /\ hp' = [hp EXCEPT ![i].pc = "done", ![i].forwarded = View(hp[i].payload)]
    /\ UNCHANGED <<bufs, arrays, poolChan>>
    /\ PoolOnly

\* request i carries one, two or three bytes i; the ceiling is two
PoolBodies(i) == {<<i>>, <<i, i>>, <<i, i, i>>}

PoolInit ==
    /\ req = Request("POST", CT_json, H_keepalive, H_h2c, FALSE, <<>>, <<>>, <<>>)
    /\ cfg = Handler(2, TRUE, FALSE, TRUE, StreamService)
    /\ pc = "entry"
    /\ InitCommon
    /\ hp \in [1..NumRequests ->
                [pc : {"get"}, body : UNION {PoolBodies(i) : i \in 1..NumRequests},
                 buf : {0}, pooled : {FALSE}, err : {FALSE}, payload : {NoSlice},
                 forwarded : {<<>>}]]
    /\ \A i \in 1..NumRequests : hp[i].body \in PoolBodies(i)
    /\ bufs = <<>>
    /\ arrays = <<>>
    /\ poolChan = <<>>

PoolNext ==
    \E i \in 1..NumRequests :
        \/ PoolGet(i)
        \/ PoolReadFrom(i)
        \/ PoolPut(i)
        \/ PoolForward(i)

PoolSpec == PoolInit /\ [][PoolNext]_vars

(***************************************************************************)
(* Properties of the bridge session.                                       *)
(***************************************************************************)
IsPrefix(a, b) == Len(a) <= Len(b) /\ SubSeq(b, 1, Len(a)) = a

RECURSIVE SelectData(_, _)
SelectData(frames, ops) ==
    IF frames = <<>> THEN <<>>
    ELSE (IF Head(frames).op \in ops THEN <<Head(frames).data>> ELSE <<>>)
            \o SelectData(Tail(frames), ops)

RECURSIVE SentBy(_, _)
SentBy(sent, who) ==
    IF sent = <<>> THEN <<>>
    ELSE (IF Head(sent).by = who THEN <<Head(sent).data>> ELSE <<>>)
            \o SentBy(Tail(sent), who)

\* what writeLoop has sent, and the data frames it has read
WLForwarded == SentBy(streamSent, "writeLoop")
WLDataRead == SelectData(wlRead, {OpText, OpBinary})

\* C1: the frames writeLoop has sent on the backend stream are a prefix of
\* the data frames (text or binary) it has read, in order, one Send per data
\* frame: at most the frame being sent (or the one whose Send failed) is
\* missing, and non-data frames are never forwarded.
C1_UpstreamInOrder ==
    /\ IsPrefix(WLForwarded, WLDataRead)
    /\ Len(WLDataRead) - Len(WLForwarded) <= 1
    /\ pcWL \in {"select", "read"} => WLForwarded = WLDataRead
    /\ pcWL = "done" /\ wlExit.kind # "sendError" => WLForwarded = WLDataRead

C1_Witness ==
    /\ WLForwarded = <<1, 2>>
    /\ pcWL = "select"

C1_WitnessSkip ==
    /\ Len(wlRead) = 2
    /\ WLForwarded = <<2>>

\* C2: stream.Close has been called at most once, and only by writeLoop.
C2_CloseOnceByWriteLoop ==
    /\ closeCount <= 1
    /\ closers \subseteq {"writeLoop"}

C2_Witness ==
    /\ closeCount = 1
    /\ pc = "done"
    /\ pcWL = "done"
    /\ wlExit.kind = "readError"

\* C3: once serveWebsocket has returned and no writeLoop is running, a
\* stream that was opened has been closed.
C3_OpenedStreamIsClosed ==
    (streamOpen /\ pc = "done" /\ pcWL \in {"none", "done"}) => closeCount >= 1

\* C4 as claimed: the connection is closed only when both relays have
\* returned.
C4_ClosedAfterBothRelays ==
    connState = "closed" => (pc = "done" /\ pcWL \in {"none", "done"})

\* C4: the connection is closed only when serveWebsocket, and with it the
\* downstream relay, has returned; writeLoop may still be running.
C4_ClosedAfterDownstream ==
    connState = "closed" => pc = "done"

C4_Witness ==
    /\ connState = "closed"
    /\ pc = "done"
    /\ pcWL = "read"

\* C5: when the stream's context is done while writeLoop is in its read of
\* the connection, writeLoop eventually returns, whatever the client does.
C5_UpstreamUnblocked ==
    (streamCtxDone /\ pcWL = "read") ~> (pcWL = "done")

C5_Witness ==
    /\ streamCtxDone
    /\ pcWL = "read"
    /\ connIn = <<>>
    /\ connState = "open"
    /\ ~connBroken

BenignCodes == {StatusGoingAway, StatusNormalClosure, StatusNoStatusRcvd}
BenignExit == wlExit.kind = "closed" /\ wlExit.code \in BenignCodes
OtherReadFailure ==
    \/ wlExit.kind = "closed" /\ wlExit.code \notin BenignCodes
    \/ wlExit.kind = "readError"
WLLogged == \E l \in logged : l.by = "writeLoop"
SessionClosed ==
    /\ pc = "done"
    /\ pcWL = "done"
    /\ connState = "closed"

RECURSIVE CallsOfKind(_, _)
CallsOfKind(calls, k) ==
    IF calls = <<>> THEN 0
    ELSE (IF Head(calls).kind = k THEN 1 ELSE 0) + CallsOfKind(Tail(calls), k)

\* the header values of the model that ask for a websocket upgrade
AsksUpgrade ==
    /\ req.connection \in {H_upgrade, H_Upgrade, H_keepalive_Upgrade}
    /\ req.upgrade \in {H_websocket, H_WebSocket, H_h2c_websocket}

\* some endpoint with the requested name has stream = "true"
EndpointStreams ==
    \E i \in DOMAIN cfg.service.services :
       Endpoint(cfg.service.endpointName, "true")
          \in {cfg.service.services[i][j] : j \in DOMAIN cfg.service.services[i]}

\* C7: serveWebsocket is entered only for an upgrade request to an endpoint
\* that streams; every other request makes no upgrade and opens no stream,
\* and ends with a response written by the unary path.
C7_StreamGate ==
    /\ "serveWebsocket" \in events => (AsksUpgrade /\ EndpointStreams)
    /\ ~(AsksUpgrade /\ EndpointStreams) =>
          /\ events = {}
          /\ CallsOfKind(backendCalls, "Stream") = 0
          /\ pc \notin {"ws_entry", "ws_payload", "ws_upgrade", "ws_open", "ws_send",
                        "ws_spawn", "select"}
          /\ pc = "done" => w.wrote

C7_Witness ==
    /\ "Upgrade" \in events
    /\ req.connection = H_keepalive_Upgrade
    /\ cfg.service.endpointName = "Svc.Stream"
    /\ Len(cfg.service.services) = 2
    /\ streamOpen

C7_WitnessUnary ==
    /\ AsksUpgrade
    /\ ~EndpointStreams
    /\ pc = "done"
    /\ CallsOfKind(backendCalls, "Call") = 1

\* the framing op the negotiation is meant to give
HintsBinary == req.hasProto /\ \E i \in DOMAIN req.proto : req.proto[i] = "binary"
ExpectedOp ==
    IF HintsBinary THEN OpBinary
    ELSE IF req.contentType \in {CT_json, CT_json_charset} THEN OpText
    ELSE OpBinary

\* C8: once negotiated, the framing op is binary if a hint asks for binary,
\* otherwise text for application/json and binary for any other content type.
C8_FramingOp ==
    "serveWebsocket" \in events => op = ExpectedOp

\* the requests whose body requestPayload reads whole: POST or PATCH with a
\* content type that selects neither an envelope nor the form rule
ReadsBody ==
    /\ req.method \in {"POST", "PATCH"}
    /\ req.contentType \in
          {CT_empty, CT_json, CT_json_charset, CT_grpc, CT_protobuf_charset, CT_text_plain,
           CT_x_www_form}

Oversize == Len(req.body) > (IF cfg.maxRecvSize > 0 THEN cfg.maxRecvSize ELSE DefaultMaxRecvSize)

Extracted == pc \in {"call", "respond", "ws_upgrade", "ws_open", "ws_send", "ws_spawn", "select"}

NothingForwarded ==
    /\ backendCalls = <<>>
    /\ "Upgrade" \notin events
    /\ ~streamOpen
    /\ streamSent = <<>>
    /\ ~Extracted

ErrorResponse ==
    /\ w.wrote
    /\ w.status >= 400
    /\ w.body.kind = "error"

C10_WitnessStream ==
    /\ Oversize
    /\ ReadsBody
    /\ pc = "done"
    /\ "serveWebsocket" \in events
    /\ payload.err = "request body too large"

(***************************************************************************)
(* Properties of the buffer pool.                                          *)
(***************************************************************************)
\* C9: from requestPayload's return until the payload is forwarded, the
\* payload's bytes are the body's bytes, and what is forwarded is the body,
\* whatever the other requests do with the pool's buffers meanwhile.
C9_PayloadStable ==
    \A i \in DOMAIN hp :
        /\ hp[i].pc \in {"put", "call"} /\ ~hp[i].err => View(hp[i].payload) = hp[i].body
        /\ hp[i].pc = "done" /\ ~hp[i].err => hp[i].forwarded = hp[i].body

C9_Witness ==
    /\ hp[1].pc = "call"
    /\ hp[2].pc = "done"
    /\ hp[2].pooled
    /\ hp[2].forwarded = <<2, 2>>

(***************************************************************************)
(* Properties of the response of a unary call.                             *)
(***************************************************************************)
\* a unary request of the grpc convention whose backend call was made and
\* which has been answered
GrpcUnaryAnswered ==
    /\ Contains(req.contentType, CT_grpc)
    /\ "serveWebsocket" \notin events
    /\ CallsOfKind(backendCalls, "Call") = 1
    /\ pc = "done"

\* the headers committed with the status carry this grpc status and message
SentGrpc(status, message) ==
    /\ {"grpc-status", "grpc-message"} \subseteq w.sent.keys
    /\ w.sent.grpcStatus = status
    /\ w.sent.grpcMessage = message

\* C11: the committed response of a grpc unary call carries grpc-status 0,
\* an empty grpc-message and the request's Content-Type when the call
\* succeeded, and grpc-status 13, the error detail as grpc-message and
\* Content-Type application/json when it failed.
C11_GrpcStatusDelivered ==
    GrpcUnaryAnswered =>
        /\ w.committed
        /\ w.body.kind = "bytes" =>
              /\ SentGrpc("0", <<>>)
              /\ w.sent.ContentType = req.contentType
        /\ w.body.kind = "error" =>
              /\ SentGrpc("13", w.body.detail)
              /\ w.sent.ContentType = CT_json

(***************************************************************************)
(* Properties of the two relays of a session.                              *)
(***************************************************************************)
\* both relays are running
Relaying == pcWL \in {"select", "read", "send"} /\ pc \in {"select", "rsp_read", "write", "flush"}

\* what has been written into rw's writer, flushed or not, in write order
Written == connOut \o rwOut

\* C12: while the two relays run, everything written into the connection's
\* buffered writer was written by the downstream relay; the upstream relay
\* has written nothing.
C12_OnlyDownstreamWrites ==
    Relaying => \A i \in DOMAIN Written : Written[i].by = "serveWebsocket"

(***************************************************************************)
(* Properties of the classification of the content type.                   *)
(***************************************************************************)
\* the Content-Type cut at its first ';', and whether it is one of the known
\* types: a json codec, a proto codec, or the form type
Truncated == StripParams(req.contentType)
KnownCodec == hasCodec(Truncated, jsonCodecs) \/ hasCodec(Truncated, protoCodecs)
KnownType == KnownCodec \/ Truncated \in {CT_form, CT_x_www_form}

\* C13: every backend request, unary or streaming, is classified by the
\* truncated Content-Type: a known codec is issued under the truncated value,
\* and a value that is no known type is issued as application/json with the
\* json wrapper (json.RawMessage).
C13_UnknownIsStructuredText ==
    \A i \in DOMAIN backendCalls :
        /\ KnownCodec => backendCalls[i].contentType = Truncated
        /\ ~KnownType =>
              /\ backendCalls[i].contentType = CT_json
              /\ backendCalls[i].wrapper = "RawMessage"

\* a relay has returned
DownstreamExited == pcWL # "none" /\ pc = "done"
UpstreamExited == pcWL = "done"

\* both relays returned, the connection closed, the stream closed once
SessionTornDown ==
    /\ SessionClosed
    /\ closeCount = 1

C14_WitnessUpstream ==
    /\ SessionTornDown
    /\ wlExit.kind = "sendError"

\* C15: once the request's context is cancelled while the relays run, both
\* relays eventually return, also when the downstream relay is in its read
\* of the response channel with nothing to read.
C15_CancelEndsRelays ==
    (ctxDone /\ pcWL # "none") ~> (pc = "done" /\ pcWL = "done")

\* cancelled while the downstream relay waits in rsp.Read and the upstream
\* relay waits in its read of the connection
C15_Witness ==
    /\ ctxDone
    /\ ~streamCtxDone
    /\ pc = "rsp_read"
    /\ rspQ = <<>>
    /\ pcWL = "read"
    /\ connIn = <<>>

\* the messages of a sequence that one goroutine wrote
RECURSIVE WrittenBy(_, _)
WrittenBy(msgs, who) ==
    IF msgs = <<>> THEN <<>>
    ELSE (IF Head(msgs).by = who THEN <<Head(msgs)>> ELSE <<>>)
            \o WrittenBy(Tail(msgs), who)

\* the messages the downstream relay has written, in write order, and those
\* of them that are not flushed yet
DownWritten == WrittenBy(Written, "serveWebsocket")
DownUnflushed == WrittenBy(rwOut, "serveWebsocket")

\* the chunks the downstream relay has read: chunk k carries the data k
ChunksRead == [k \in 1..(chunksSent - Len(rspQ)) |-> k]

DownstreamInOrder ==
    /\ Len(DownWritten) <= Len(ChunksRead)
    /\ \A k \in DOMAIN DownWritten :
          /\ DownWritten[k].data = ChunksRead[k]
          /\ DownWritten[k].op = op
    /\ Len(ChunksRead) - Len(DownWritten) <= 1
    /\ pc \in {"flush", "select"} => Len(DownWritten) = Len(ChunksRead)
    /\ pc = "write" => Len(DownWritten) = Len(ChunksRead) - 1
    /\ pc = "write" => mainBuf = ChunksRead[Len(ChunksRead)]
    /\ pc \in {"select", "rsp_read", "write"} => DownUnflushed = <<>>
    /\ Len(DownUnflushed) <= 1

\* C16: what the downstream relay has written to the connection is a prefix
\* of the chunks it has read, one message per chunk in the same order, each
\* with the negotiated op; each message is flushed before the next chunk is
\* read; and once the relay has returned it writes nothing more.
C16_DownstreamInOrder ==
    /\ []DownstreamInOrder
    /\ [][pc = "done" => DownWritten' = DownWritten]_vars

\* two chunks relayed as text messages, flushed, the relay back at its select
C16_Witness ==
    /\ pc = "select"
    /\ op = OpText
    /\ WrittenBy(connOut, "serveWebsocket") =
          <<[by |-> "serveWebsocket", op |-> OpText, data |-> 1],
            [by |-> "serveWebsocket", op |-> OpText, data |-> 2]>>

\* a failed flush: the message written last stays in the buffer
C16_WitnessFailed ==
    /\ pc = "done"
    /\ [by |-> "serveWebsocket", err |-> "flush"] \in logged
    /\ Len(DownUnflushed) = 1

\* c.Stream returned an error
StreamOpenFailed == [by |-> "serveWebsocket", err |-> "stream"] \in logged

\* no relay was started and none has touched the connection or a stream
NoRelayStarted ==
    /\ pcWL = "none"
    /\ wlRead = <<>>
    /\ Written = <<>>
    /\ streamSent = <<>>

\* C17: when c.Stream fails after the upgrade, serveWebsocket has returned,
\* the connection is closed, no relay was started, no frame was read from or
\* written to the connection and nothing was sent on a stream.
C17_OpenFailureClosesConn ==
    StreamOpenFailed =>
        /\ "Upgrade" \in events
        /\ pc = "done"
        /\ connState = "closed"
        /\ ~streamOpen
        /\ NoRelayStarted

\* the client had already sent a frame on the upgraded connection
C17_Witness ==
    /\ StreamOpenFailed
    /\ connState = "closed"
    /\ connIn # <<>>

\* the handshake failed, or the extraction of the first payload before it
UpgradeFailed == [by |-> "serveWebsocket", err |-> "upgrade"] \in logged
PayloadFailed == payload.err # ""

\* C18: the stages come in order: a connection is upgraded only after the
\* payload was extracted, a stream is opened only on an upgraded connection,
\* a relay runs only on an opened stream; and when the extraction or the
\* handshake fails, serveWebsocket has returned, no stream was asked for or
\* opened, no relay was started and nothing was written to the connection.
C18_StagesInOrder ==
    /\ connState # "none" => ("Upgrade" \in events /\ ~PayloadFailed)
    /\ "Upgrade" \in events => ("serveWebsocket" \in events /\ ~PayloadFailed)
    /\ (CallsOfKind(backendCalls, "Stream") > 0 \/ streamOpen) => connState # "none"
    /\ streamOpen => CallsOfKind(backendCalls, "Stream") = 1
    /\ (streamSent # <<>> \/ pcWL # "none") => streamOpen
    /\ Written # <<>> => pcWL # "none"
    /\ (PayloadFailed \/ UpgradeFailed) =>
          /\ pc = "done"
          /\ connState = "none"
          /\ CallsOfKind(backendCalls, "Stream") = 0
          /\ ~streamOpen
          /\ NoRelayStarted

C18_Witness ==
    /\ UpgradeFailed
    /\ pc = "done"

C18_WitnessPayload ==
    /\ PayloadFailed
    /\ pc = "done"
    /\ "Upgrade" \notin events

\* the request carries an initial payload: requestPayload returned bytes
HasInitialPayload == payload.err = "" /\ PayloadLen(payload) > 0

\* what serveWebsocket itself has sent on the stream
InitialSent == SentBy(streamSent, "serveWebsocket")

\* C19: once the upstream relay is started, the initial payload, when there
\* is one, is the first frame that was sent on the stream; when there is
\* none, serveWebsocket has sent nothing on the stream.
C19_InitialPayloadFirst ==
    pcWL # "none" =>
        IF HasInitialPayload
        THEN /\ streamSent # <<>>
             /\ streamSent[1].by = "serveWebsocket"
             /\ streamSent[1].data = payload
             /\ Len(InitialSent) = 1
        ELSE InitialSent = <<>>

(***************************************************************************)
(* Properties of the payload extraction.                                   *)
(***************************************************************************)
\* requestPayload has been called for the request
PayloadTaken ==
    \/ Extracted
    \/ backendCalls # <<>>
    \/ payload.err # ""
    \/ "Upgrade" \in events

\* the content types of the envelope rule and of the form rule, and the
\* methods that carry a body to forward
EnvelopeType ==
    \E t \in {CT_json_rpc, CT_proto_rpc, CT_octet_stream} : Contains(req.contentType, t)
FormType ==
    \E t \in {CT_x_www_form, CT_form} : Contains(req.contentType, t)
MutatingMethods == {"POST", "PATCH", "PUT"}

\* the payload of the rule that matches first, in the order envelope, form,
\* query of a GET, body of a mutating request, empty
FlatJSONObject(p) ==
    /\ p.err = ""
    /\ p.kind = "json"
    /\ \A k \in DOMAIN p.data : p.data[k].type = "string"

RuleOrderKept ==
    IF EnvelopeType
    THEN payload = DecodeEnvelope(req.body, bsizeOf(cfg.maxRecvSize))
    ELSE IF FormType
    THEN FlatJSONObject(payload)
    ELSE IF req.method = "GET" /\ req.query # <<>>
    THEN /\ payload.err = ""
         /\ payload.kind = "json"
         /\ DOMAIN payload.data = QueryKeys(req.query)
    ELSE IF req.method \in MutatingMethods
    THEN IF Oversize THEN payload.err # ""
         ELSE payload = PayloadOK("bytes", req.body)
    ELSE payload = PayloadOK("bytes", <<>>)

\* C20: the payload requestPayload returned is the one of the first rule
\* that matches the request, in the order envelope content type, form
\* content type, GET with a query, mutating method, none; every mutating
\* method gets its body.
C20_FirstRuleWins ==
    PayloadTaken => RuleOrderKept

====
